---- MODULE Spec2Model ----
(***************************************************************************)
(* lamfox: a decorator-configured request router for a single serverless   *)
(* function.  The model covers the Router class (registration, dispatch,   *)
(* guards, parameter binding, path patterns) and errorHandler.             *)
(*                                                                         *)
(* Strings the code inspects character by character (paths, templates,    *)
(* bodies, keys) are sequences of one-character strings.  JavaScript       *)
(* values are tagged records (Undefined, JNull, JStr, JObj).               *)
(* Reflect.getMetadata is modelled as returning what the decorators        *)
(* recorded for the method: the metadata store itself is the library       *)
(* reflect-metadata, which is not part of the repository.                 *)
(***************************************************************************)
EXTENDS Integers, Sequences, FiniteSets, TLC

(***************************************************************************)
(* Bounds of the model.                                                    *)
(***************************************************************************)
MaxRoutes == 2
MaxMiddlewares == 2

(***************************************************************************)
(* JavaScript values.                                                      *)
(***************************************************************************)
Undefined == [t |-> "undefined"]
JNull == [t |-> "null"]
JStr(s) == [t |-> "string", s |-> s]
JObj(f) == [t |-> "object", o |-> f]
EmptyObj == [k \in {} |-> Undefined]

\* obj[key] for a JavaScript value: own fields of an object, undefined for a
\* missing field or a primitive; the caller rules out null and undefined.
GetField(v, key) ==
    IF v.t = "object" /\ key \in DOMAIN v.o THEN v.o[key] ELSE Undefined

\* the character class [a-zA-Z0-9]
Alnum ==
    { "a", "b", "c", "d", "e", "f", "g", "h", "i", "j", "k", "l", "m",
      "n", "o", "p", "q", "r", "s", "t", "u", "v", "w", "x", "y", "z",
      "A", "B", "C", "D", "E", "F", "G", "H", "I", "J", "K", "L", "M",
      "N", "O", "P", "Q", "R", "S", "T", "U", "V", "W", "X", "Y", "Z",
      "0", "1", "2", "3", "4", "5", "6", "7", "8", "9" }

\* s.includes(c)
Includes(s, c) == \E i \in 1..Len(s) : s[i] = c

\* s.slice(from) with a 1-based first index
SliceFrom(s, from) == SubSeq(s, from, Len(s))

(***************************************************************************)
(* Path patterns.  A compiled RegExp is the sequence of its tokens: "^",   *)
(* "$", the capture group "([^/]+)" as one token, "." (any character) and  *)
(* literal characters.                                                     *)
(***************************************************************************)
Group == "([^/]+)"
GroupChars == << "(", "[", "^", "/", "]", "+", ")" >>

\* length of the run of [a-zA-Z0-9] characters of s that starts at i
RECURSIVE AlnumRun(_, _)
AlnumRun(s, i) ==
    IF i <= Len(s) /\ s[i] \in Alnum THEN 1 + AlnumRun(s, i + 1) ELSE 0

\* path.replace(/:([a-zA-Z0-9]+)/g, '([^/]+)'), from position i on
RECURSIVE ReplacePlaceholders(_, _)
ReplacePlaceholders(s, i) ==
    IF i > Len(s) THEN << >>
    ELSE IF s[i] = ":" /\ AlnumRun(s, i + 1) > 0
         THEN << Group >> \o ReplacePlaceholders(s, i + 1 + AlnumRun(s, i + 1))
         ELSE << s[i] >> \o ReplacePlaceholders(s, i + 1)

convertToRegExp(path) == << "^" >> \o ReplacePlaceholders(path, 1) \o << "$" >>

\* pattern.toString(): "/" source "/", the source with "/" escaped
RECURSIVE RegExpSource(_, _)
RegExpSource(re, i) ==
    IF i > Len(re) THEN << >>
    ELSE (IF re[i] = Group THEN GroupChars
          ELSE IF re[i] = "/" THEN << "\\", "/" >>
          ELSE << re[i] >>) \o RegExpSource(re, i + 1)

RegExpToString(re) == << "/" >> \o RegExpSource(re, 1) \o << "/" >>

\* number of characters other than "/" of s from position j on
RECURSIVE SegmentRun(_, _)
SegmentRun(s, j) ==
    IF j <= Len(s) /\ s[j] # "/" THEN 1 + SegmentRun(s, j + 1) ELSE 0

NoMatch == [ok |-> FALSE]

\* The backtracking matcher: tokens re[i..] against s[j..]; a group takes the
\* longest run first (k characters, then k - 1, ...).
RECURSIVE MatchFrom(_, _, _, _, _)
RECURSIVE MatchGroup(_, _, _, _, _, _)
MatchFrom(re, i, s, j, caps) ==
    IF i > Len(re) THEN [ok |-> TRUE, end |-> j, caps |-> caps]
    ELSE IF re[i] = "^" THEN (IF j = 1 THEN MatchFrom(re, i + 1, s, j, caps) ELSE NoMatch)
    ELSE IF re[i] = "$"
         THEN (IF j = Len(s) + 1 THEN MatchFrom(re, i + 1, s, j, caps) ELSE NoMatch)
    ELSE IF re[i] = Group THEN MatchGroup(re, i, s, j, SegmentRun(s, j), caps)
    ELSE IF j > Len(s) THEN NoMatch
    ELSE IF re[i] = "." \/ re[i] = s[j] THEN MatchFrom(re, i + 1, s, j + 1, caps)
    ELSE NoMatch

MatchGroup(re, i, s, j, k, caps) ==
    IF k < 1 THEN NoMatch
    ELSE LET m == MatchFrom(re, i + 1, s, j + k, Append(caps, SubSeq(s, j, j + k - 1)))
         IN  IF m.ok THEN m ELSE MatchGroup(re, i, s, j, k - 1, caps)

\* path.match(re): the patterns all start with "^", so the only attempt is
\* at the first character.  whole is match[0], caps are match[1], match[2], ...
StringMatch(path, re) ==
    LET m == MatchFrom(re, 1, path, 1, << >>)
    IN  IF m.ok THEN [ok |-> TRUE, whole |-> SubSeq(path, 1, m.end - 1), caps |-> m.caps]
        ELSE NoMatch

\* str.match(/:([a-zA-Z0-9]+)/g): the matched texts, left to right
RECURSIVE MatchPlaceholders(_, _)
MatchPlaceholders(s, i) ==
    IF i > Len(s) THEN << >>
    ELSE IF s[i] = ":" /\ AlnumRun(s, i + 1) > 0
         THEN << SubSeq(s, i, i + AlnumRun(s, i + 1)) >>
              \o MatchPlaceholders(s, i + 1 + AlnumRun(s, i + 1))
         ELSE MatchPlaceholders(s, i + 1)

\* keys.forEach((key, index) => params[key.slice(1)] = match[index + 1])
RECURSIVE AssignParams(_, _, _)
AssignParams(keys, caps, n) ==
    IF n = 0 THEN EmptyObj
    ELSE LET before == AssignParams(keys, caps, n - 1)
             name == SliceFrom(keys[n], 2)
             value == IF n <= Len(caps) THEN JStr(caps[n]) ELSE Undefined
         IN  [k \in (DOMAIN before) \cup {name} |->
                 IF k = name THEN value ELSE before[k]]

extractParams(pattern, match) ==
    LET keys == MatchPlaceholders(RegExpToString(pattern), 1)
    IN  AssignParams(keys, match.caps, Len(keys))

(***************************************************************************)
(* Errors (error_handler.ts).  A CustomError carries its class name and    *)
(* the statusCode of its class; the messages are the classes' default      *)
(* messages, written in English.                                           *)
(***************************************************************************)
CustomError(name, statusCode, message) ==
    [name |-> name, custom |-> TRUE, statusCode |-> statusCode, message |-> message]

\* an error of the language (SyntaxError, TypeError, Error): no statusCode
NativeError(name, message) ==
    [name |-> name, custom |-> FALSE, statusCode |-> 0, message |-> message]

UndefinedPathError == CustomError("UndefinedPathError", 404, "undefined path")
UnauthorizedError == CustomError("UnauthorizedError", 401, "unauthorized user")
ForbiddenError == CustomError("ForbiddenError", 403, "no permission")
BadRequestError == CustomError("BadRequestError", 400, "bad request")
InternalServerError == CustomError("InternalServerError", 500, "server error")
DatabaseError == CustomError("DatabaseError", 500, "database error")
NotFoundError == CustomError("NotFoundError", 404, "no data")
ConflictError == CustomError("ConflictError", 409, "duplicate data")
ValidationError == CustomError("ValidationError", 400, "validation error")
SyntaxError == NativeError("SyntaxError", "Unexpected token in JSON")
TypeError == NativeError("TypeError", "Cannot read properties of null")
NoError == NativeError("", "")

\* JSON.stringify of a flat document: the serialized text is kept as the
\* document it encodes
JSONStringify(doc) == [json |-> doc]

\* A faulty variant of errorHandler: every failure is reported as 500.
errorHandlerAlways500(error, event) ==
    [statusCode |-> 500,
     body |-> JSONStringify([message |-> IF error.message # "" THEN error.message
                                         ELSE "Internal Server Error",
                             error |-> error.name])]

errorHandler(error, event) ==
    LET statusCode == IF error.custom THEN error.statusCode ELSE 500
        message == IF error.message # "" THEN error.message ELSE "Internal Server Error"
    IN  [statusCode |-> statusCode,
         body |-> JSONStringify([message |-> message, error |-> error.name])]

(***************************************************************************)
(* Request bodies and JSON.parse.                                          *)
(***************************************************************************)
KeyName == << "n", "a", "m", "e" >>
Ada == << "A", "d", "a" >>
BodyAda == << "{", "\"", "n", "a", "m", "e", "\"", ":", "\"", "A", "d", "a", "\"", "}" >>
BodyEmptyObject == << "{", "}" >>
BodyNullText == << "n", "u", "l", "l" >>
BodyMalformed == << "{", "n" >>
BodyEmptyString == << >>

\* JSON.parse on the body texts of the model: ok with the parsed value, or
\* the SyntaxError it throws
JSONParse(text) ==
    IF text = BodyAda THEN [ok |-> TRUE, value |-> JObj([k \in {KeyName} |-> JStr(Ada)])]
    ELSE IF text = BodyEmptyObject THEN [ok |-> TRUE, value |-> JObj(EmptyObj)]
    ELSE IF text = BodyNullText THEN [ok |-> TRUE, value |-> JNull]
    ELSE [ok |-> FALSE, value |-> Undefined]

(***************************************************************************)
(* What the application registers: guards, middleware, controllers.        *)
(***************************************************************************)
NoLogger == "none"

\* the body of a middleware (or of the logger): it completes or throws
MiddlewareBody(m, event) ==
    IF m = "reject" THEN [ok |-> FALSE, error |-> BadRequestError]
    ELSE [ok |-> TRUE, error |-> NoError]

Middlewares == {"audit", "trace", "reject"}
Loggers == {"audit", "reject"}

\* the body of a guard: it returns a boolean or throws
GuardBody(g, event) ==
    IF g = "allow" THEN [ok |-> TRUE, value |-> TRUE, error |-> NoError]
    ELSE IF g = "deny" THEN [ok |-> TRUE, value |-> FALSE, error |-> NoError]
    ELSE [ok |-> FALSE, value |-> FALSE, error |-> UnauthorizedError]

\* the body of a handler method: it returns a Response or throws
JArr(a) == [t |-> "array", a |-> a]

HandlerBody(name, args) ==
    IF name = "fail" THEN [ok |-> FALSE, error |-> NotFoundError, res |-> Undefined]
    ELSE [ok |-> TRUE, error |-> NoError,
          res |-> [statusCode |-> IF name = "create" THEN 201 ELSE 200,
                   body |-> [message |-> name, data |-> JArr(args)]]]

\* a parameter descriptor as the decorators Body, Query, Params and Headers
\* push it; param is the empty string when the decorator got no key (the
\* binding only tests param for truthiness)
Descriptor(index, type, param) == [index |-> index, type |-> type, param |-> param]

\* a method of a controller with the metadata its decorators recorded
Method(name, method, path, guards, parameters) ==
    [name |-> name, method |-> method, path |-> path, guards |-> guards,
     parameters |-> parameters]

PathU == << "/", "u" >>
PathId == << "/", ":", "i" >>
PathMe == << "/", "m", "e" >>
PathNew == << "/", "n" >>
PathSecure == << "/", "s" >>
PathKey == << "/", ":", "k" >>

Methods ==
    { Method("getItem", "GET", PathId, << >>,
             << Descriptor(0, "params", << "i" >>) >>),
      Method("postItem", "POST", PathKey, << "allow" >>,
             << Descriptor(0, "params", << "k" >>) >>),
      Method("getMe", "GET", PathMe, << "allow" >>, << >>),
      Method("create", "POST", PathNew, << >>,
             << Descriptor(2, "body", << >>), Descriptor(0, "body", KeyName) >>),
      Method("secure", "GET", PathSecure, << "allow", "deny", "raise" >>, << >>),
      Method("admin", "GET", PathSecure, << "allow", "raise", "deny" >>, << >>),
      Method("fail", "GET", PathMe, << "allow", "allow" >>, << >>) }

\* a controller class: its @Controller path and its methods in
\* Object.getOwnPropertyNames order, the constructor left out
Controller(path, methods) == [path |-> path, methods |-> methods]

Controllers ==
    { Controller(PathU, << m >>) : m \in Methods }
    \cup { Controller(PathU, << m, n >>) :
              m \in { x \in Methods : x.name = "getItem" },
              n \in { x \in Methods : x.name = "getMe" } }

HttpMethods == {"GET", "POST"}
RequestPaths ==
    { << "/", "u", "/", "4", "2" >>, << "/", "u", "/", "m", "e" >>,
      << "/", "u", "/", "n" >>, << "/", "u", "/", "s" >>, << "/", "x" >> }
Bodies == {BodyAda, BodyEmptyObject, BodyNullText, BodyMalformed, BodyEmptyString}

\* an APIGatewayEvent: body and pathParameters are null when the gateway
\* has none
Event(httpMethod, path, body) ==
    [httpMethod |-> httpMethod, path |-> path, body |-> body, pathParameters |-> JNull,
     queryStringParameters |-> JNull, headers |-> JNull]

Events ==
    { Event(m, p, JNull) : m \in HttpMethods, p \in RequestPaths }
    \cup { Event("POST", << "/", "u", "/", "n" >>, JStr(b)) : b \in Bodies }

(***************************************************************************)
(* The router and the dispatches in flight.                                *)
(***************************************************************************)
VARIABLES
    staticRoutes,    \* Router.staticRoutes
    dynamicRoutes,   \* Router.dynamicRoutes
    middlewares,     \* Router.middlewares
    logger,          \* Router.logger
    concurrency,     \* how many handleRequest calls the host lets run at once
    disp             \* per call of handleRequest: its locals and its outcome

vars == << staticRoutes, dynamicRoutes, middlewares, logger, concurrency, disp >>

DispIds == {1, 2}

NoRoute == [method |-> "", path |-> << >>,
            handler |-> [id |-> 0, name |-> "", parameters |-> << >>],
            guards |-> << >>]

Pending == [state |-> "pending", statusCode |-> 0, body |-> Undefined, error |-> NoError]
Fulfilled(response) ==
    [state |-> "fulfilled", statusCode |-> response.statusCode, body |-> response.body,
     error |-> NoError]
Rejected(error) ==
    [state |-> "rejected", statusCode |-> 0, body |-> Undefined, error |-> error]

\* a call of handleRequest that has not started
Idle ==
    [pc |-> "idle", event |-> Event("", << >>, JNull), i |-> 0, route |-> NoRoute,
     error |-> NoError, args |-> << >>, out |-> Pending, log |-> << >>]

\* one entry of the record of what a dispatch ran, in order
Ran(stage, who, hid) == [stage |-> stage, who |-> who, hid |-> hid]

InFlight == { d \in DispIds : disp[d].pc # "idle" }

Init ==
    /\ staticRoutes = << >>
    /\ dynamicRoutes = << >>
    /\ middlewares = << >>
    /\ logger = NoLogger
    /\ concurrency = 1
    /\ disp = [d \in DispIds |-> Idle]

(***************************************************************************)
(* Registration: useLogger, use, addRoute.  The application registers      *)
(* while no request is being served.                                       *)
(***************************************************************************)
useLogger(l) ==
    /\ InFlight = {}
    /\ logger' = l
    /\ UNCHANGED << staticRoutes, dynamicRoutes, middlewares, concurrency, disp >>

use(middleware) ==
    /\ InFlight = {}
    /\ Len(middlewares) < MaxMiddlewares
    /\ middlewares' = Append(middlewares, middleware)
    /\ UNCHANGED << staticRoutes, dynamicRoutes, logger, concurrency, disp >>

\* instance[methodName].bind(instance): a new function object per
\* registration, identified by the number of routes registered before it
BoundHandler(m, id) == [id |-> id, name |-> m.name, parameters |-> m.parameters]

\* path.includes(':') on the method's own path
IsDynamicPath(path) == Includes(path, ":")

\* the forEach of addRoute over the methods from the k-th on; tables is
\* the pair of route lists
RECURSIVE AddMethods(_, _, _)
AddMethods(tables, controller, k) ==
    IF k > Len(controller.methods) THEN tables
    ELSE LET m == controller.methods[k]
             id == Len(tables.static) + Len(tables.dynamic) + 1
             full == controller.path \o m.path
             next ==
                 IF IsDynamicPath(m.path)
                 THEN [tables EXCEPT !.dynamic =
                          Append(@, [method |-> m.method, path |-> convertToRegExp(full),
                                     handler |-> BoundHandler(m, id),
                                     guards |-> m.guards])]
                 ELSE [tables EXCEPT !.static =
                          Append(@, [method |-> m.method, path |-> full,
                                     handler |-> BoundHandler(m, id),
                                     guards |-> m.guards])]
         IN  AddMethods(next, controller, k + 1)

addRoute(controller) ==
    /\ InFlight = {}
    /\ Len(staticRoutes) + Len(dynamicRoutes) + Len(controller.methods) <= MaxRoutes
    /\ LET tables == AddMethods([static |-> staticRoutes, dynamic |-> dynamicRoutes],
                                controller, 1)
       IN  /\ staticRoutes' = tables.static
           /\ dynamicRoutes' = tables.dynamic
    /\ UNCHANGED << middlewares, logger, concurrency, disp >>

(***************************************************************************)
(* Route lookup.                                                           *)
(***************************************************************************)
\* Array.prototype.find over the indices whose elements satisfy the test:
\* the first of them, 0 when there is none
FirstIndex(hits) ==
    IF hits = {} THEN 0 ELSE CHOOSE i \in hits : \A j \in hits : i <= j

\* A faulty variant of FindStatic: the last matching route is taken, not the first.
FindStaticLast(routes, httpMethod, path) ==
    LET hits == { i \in 1..Len(routes) :
                    routes[i].method = httpMethod /\ routes[i].path = path }
    IN  IF hits = {} THEN 0 ELSE CHOOSE i \in hits : \A j \in hits : j <= i

\* staticRoutes.find(route => route.method === httpMethod && route.path === path)
FindStatic(routes, httpMethod, path) ==
    FirstIndex({ i \in 1..Len(routes) :
                   routes[i].method = httpMethod /\ routes[i].path = path })

\* the test of dynamicRoutes.find: match && match[0] === path
FullMatch(route, path) ==
    LET match == StringMatch(path, route.path)
    IN  match.ok /\ match.whole = path

\* dynamicRoutes.find(route => ...): the request's method is not part of
\* the test
FindDynamic(routes, path) ==
    FirstIndex({ i \in 1..Len(routes) : FullMatch(routes[i], path) })

\* A faulty variant of Resolve: the dynamic routes are searched first.
ResolveDynamicFirst(statics, dynamics, httpMethod, path) ==
    LET s == FindStatic(statics, httpMethod, path)
        d == FindDynamic(dynamics, path)
    IN  IF d > 0 THEN [kind |-> "dynamic", index |-> d]
        ELSE IF s > 0 THEN [kind |-> "static", index |-> s]
        ELSE [kind |-> "none", index |-> 0]

\* the lookup of handleRequest: static routes first, then dynamic ones
Resolve(statics, dynamics, httpMethod, path) ==
    LET s == FindStatic(statics, httpMethod, path)
        d == FindDynamic(dynamics, path)
    IN  IF s > 0 THEN [kind |-> "static", index |-> s]
        ELSE IF d > 0 THEN [kind |-> "dynamic", index |-> d]
        ELSE [kind |-> "none", index |-> 0]

(***************************************************************************)
(* Parameter binding (invokeHandler).                                      *)
(***************************************************************************)
\* truthiness of a string-or-null value: null, undefined and "" are falsy
Truthy(v) == v.t \notin {"null", "undefined"} /\ (v.t = "string" => Len(v.s) > 0)

\* args[index] = value on a JavaScript array: the array grows, and the
\* holes it leaves reach the handler as undefined
SetIndex(args, index, value) ==
    [k \in 1..(IF index + 1 > Len(args) THEN index + 1 ELSE Len(args)) |->
        IF k = index + 1 THEN value
        ELSE IF k <= Len(args) THEN args[k] ELSE Undefined]

LowerOf(c) ==
    CASE c = "A" -> "a" [] c = "B" -> "b" [] c = "C" -> "c" [] c = "D" -> "d"
      [] c = "E" -> "e" [] c = "F" -> "f" [] c = "G" -> "g" [] c = "H" -> "h"
      [] c = "I" -> "i" [] c = "J" -> "j" [] c = "K" -> "k" [] c = "L" -> "l"
      [] c = "M" -> "m" [] c = "N" -> "n" [] c = "O" -> "o" [] c = "P" -> "p"
      [] c = "Q" -> "q" [] c = "R" -> "r" [] c = "S" -> "s" [] c = "T" -> "t"
      [] c = "U" -> "u" [] c = "V" -> "v" [] c = "W" -> "w" [] c = "X" -> "x"
      [] c = "Y" -> "y" [] c = "Z" -> "z" [] OTHER -> c

\* param.toLowerCase()
ToLowerCase(s) == [k \in 1..Len(s) |-> LowerOf(s[k])]

\* container?.[param] when param is truthy, else the container itself
Lookup(container, param) ==
    IF Len(param) > 0
    THEN (IF container.t \in {"null", "undefined"} THEN Undefined
          ELSE GetField(container, param))
    ELSE container

\* A faulty variant of BindBody: the key is ignored and the whole body is bound.
BindBodyWhole(event, param) ==
    IF ~Truthy(event.body) THEN [ok |-> TRUE, value |-> Undefined, error |-> NoError]
    ELSE LET parsed == JSONParse(event.body.s)
         IN  IF ~parsed.ok THEN [ok |-> FALSE, value |-> Undefined, error |-> SyntaxError]
             ELSE [ok |-> TRUE, value |-> parsed.value, error |-> NoError]

\* case 'body': undefined without a body, else JSON.parse(event.body)[param]
\* or JSON.parse(event.body); JSON.parse throws a SyntaxError, and reading a
\* field of null a TypeError
BindBody(event, param) ==
    IF ~Truthy(event.body) THEN [ok |-> TRUE, value |-> Undefined, error |-> NoError]
    ELSE LET parsed == JSONParse(event.body.s)
         IN  IF ~parsed.ok THEN [ok |-> FALSE, value |-> Undefined, error |-> SyntaxError]
             ELSE IF Len(param) = 0
                  THEN [ok |-> TRUE, value |-> parsed.value, error |-> NoError]
             ELSE IF parsed.value.t = "null"
                  THEN [ok |-> FALSE, value |-> Undefined, error |-> TypeError]
             ELSE [ok |-> TRUE, value |-> GetField(parsed.value, param),
                   error |-> NoError]

\* the switch of invokeHandler on one descriptor
BindOne(event, type, param) ==
    IF type = "body" THEN BindBody(event, param)
    ELSE IF type = "query"
         THEN [ok |-> TRUE, value |-> Lookup(event.queryStringParameters, param),
               error |-> NoError]
    ELSE IF type = "params"
         THEN [ok |-> TRUE, value |-> Lookup(event.pathParameters, param),
               error |-> NoError]
    ELSE IF type = "headers"
         THEN [ok |-> TRUE,
               value |-> Lookup(event.headers,
                                IF Len(param) > 0 THEN ToLowerCase(param) ELSE param),
               error |-> NoError]
    ELSE [ok |-> TRUE, value |-> Undefined, error |-> NoError]

\* the for loop of invokeHandler over paramsMetadata from the k-th on
RECURSIVE BindArgs(_, _, _, _)
BindArgs(parameters, event, k, args) ==
    IF k > Len(parameters) THEN [ok |-> TRUE, args |-> args, error |-> NoError]
    ELSE LET b == BindOne(event, parameters[k].type, parameters[k].param)
         IN  IF ~b.ok THEN [ok |-> FALSE, args |-> args, error |-> b.error]
             ELSE BindArgs(parameters, event, k + 1,
                           SetIndex(args, parameters[k].index, b.value))

\* JSON.stringify(res.body) for a body { message, data }: a property whose
\* value is undefined is left out
\* and an undefined element of an array is written as null
StringifyValue(v) ==
    IF v.t = "array"
    THEN JArr([k \in 1..Len(v.a) |-> IF v.a[k] = Undefined THEN JNull ELSE v.a[k]])
    ELSE v

StringifyBody(body) ==
    IF body.data = Undefined THEN JSONStringify([message |-> body.message])
    ELSE JSONStringify([message |-> body.message, data |-> StringifyValue(body.data)])

(***************************************************************************)
(* handleRequest, one action per awaited stage.  disp[d].i is the position *)
(* of the for loop in progress (middlewares, then the route's guards).     *)
(***************************************************************************)
Others == << staticRoutes, dynamicRoutes, middlewares, logger, concurrency >>

\* A faulty variant of Throw: what the logger or a middleware throws is
\* swallowed and the dispatch goes on with the next stage.
ThrowSwallowed(d, error, entry) ==
    IF entry.stage = "logger"
    THEN disp' = [disp EXCEPT ![d].pc = "middlewares", ![d].i = 1,
                              ![d].log = Append(@, entry)]
    ELSE IF entry.stage = "middleware"
    THEN disp' = [disp EXCEPT ![d].i = @ + 1, ![d].log = Append(@, entry)]
    ELSE disp' = [disp EXCEPT ![d].pc = "catch", ![d].error = error,
                              ![d].log = Append(@, entry)]

\* throw inside the try block: control goes to the catch clause
Throw(d, error, entry) ==
    disp' = [disp EXCEPT ![d].pc = "catch", ![d].error = error,
                         ![d].log = Append(@, entry)]

\* A faulty variant of HandleRequest: the router keeps the event of the
\* latest call in one place, where the dispatches in flight read theirs.
HandleRequestSharedEvent(d, event) ==
    /\ disp[d].pc = "idle"
    /\ \A e \in DispIds : e < d => disp[e].pc # "idle"
    /\ Cardinality(InFlight) < concurrency
    /\ disp' = [e \in DispIds |->
                  IF e = d THEN [Idle EXCEPT !.pc = "logger", !.event = event]
                  ELSE IF disp[e].pc # "idle" THEN [disp[e] EXCEPT !.event = event]
                  ELSE disp[e]]
    /\ UNCHANGED Others

\* handleRequest(event, context) is called
HandleRequest(d, event) ==
    /\ disp[d].pc = "idle"
    /\ \A e \in DispIds : e < d => disp[e].pc # "idle"
    /\ Cardinality(InFlight) < concurrency
    /\ disp' = [disp EXCEPT ![d] = [Idle EXCEPT !.pc = "logger", !.event = event]]
    /\ UNCHANGED Others

\* if (this.logger) await this.logger(event, context)
RunLogger(d) ==
    /\ disp[d].pc = "logger"
    /\ IF logger = NoLogger
       THEN disp' = [disp EXCEPT ![d].pc = "middlewares", ![d].i = 1]
       ELSE LET r == MiddlewareBody(logger, disp[d].event)
                entry == Ran("logger", logger, 0)
            IN  IF r.ok
                THEN disp' = [disp EXCEPT ![d].pc = "middlewares", ![d].i = 1,
                                          ![d].log = Append(@, entry)]
                ELSE Throw(d, r.error, entry)
    /\ UNCHANGED Others

\* A faulty variant of MiddlewareAt: the list is run from its end.
MiddlewareAtReversed(list, i) == list[Len(list) + 1 - i]

\* the i-th middleware of the for loop
MiddlewareAt(list, i) == list[i]

\* for (const middleware of this.middlewares) await middleware(event, context)
RunMiddleware(d) ==
    /\ disp[d].pc = "middlewares"
    /\ disp[d].i <= Len(middlewares)
    /\ LET m == MiddlewareAt(middlewares, disp[d].i)
           r == MiddlewareBody(m, disp[d].event)
           entry == Ran("middleware", m, 0)
       IN  IF r.ok
           THEN disp' = [disp EXCEPT ![d].i = @ + 1, ![d].log = Append(@, entry)]
           ELSE Throw(d, r.error, entry)
    /\ UNCHANGED Others

\* A faulty variant of MatchRoute: a dynamic hit moves the matched route to
\* the end of the dynamic collection.
MatchRouteRotating(d) ==
    /\ disp[d].pc = "middlewares"
    /\ disp[d].i > Len(middlewares)
    /\ LET event == disp[d].event
           hit == Resolve(staticRoutes, dynamicRoutes, event.httpMethod, event.path)
           entry == Ran("match", hit.kind, hit.index)
       IN  IF hit.kind = "static"
           THEN /\ disp' = [disp EXCEPT ![d].pc = "guards", ![d].i = 1,
                                        ![d].route = staticRoutes[hit.index],
                                        ![d].log = Append(@, entry)]
                /\ UNCHANGED dynamicRoutes
           ELSE IF hit.kind = "dynamic"
           THEN LET route == dynamicRoutes[hit.index]
                    params == extractParams(route.path, StringMatch(event.path, route.path))
                IN  /\ disp' = [disp EXCEPT ![d].pc = "guards", ![d].i = 1,
                                            ![d].route = route,
                                            ![d].event.pathParameters = JObj(params),
                                            ![d].log = Append(@, entry)]
                    /\ dynamicRoutes' =
                           SubSeq(dynamicRoutes, 1, hit.index - 1)
                           \o SubSeq(dynamicRoutes, hit.index + 1, Len(dynamicRoutes))
                           \o << route >>
           ELSE Throw(d, UndefinedPathError, entry) /\ UNCHANGED dynamicRoutes
    /\ UNCHANGED << staticRoutes, middlewares, logger, concurrency >>

\* the two lookups; a dynamic hit stores the extracted parameters in the
\* event; no hit throws UndefinedPathError
MatchRoute(d) ==
    /\ disp[d].pc = "middlewares"
    /\ disp[d].i > Len(middlewares)
    /\ LET event == disp[d].event
           hit == Resolve(staticRoutes, dynamicRoutes, event.httpMethod, event.path)
           entry == Ran("match", hit.kind, hit.index)
       IN  IF hit.kind = "static"
           THEN disp' = [disp EXCEPT ![d].pc = "guards", ![d].i = 1,
                                     ![d].route = staticRoutes[hit.index],
                                     ![d].log = Append(@, entry)]
           ELSE IF hit.kind = "dynamic"
           THEN LET route == dynamicRoutes[hit.index]
                    params == extractParams(route.path, StringMatch(event.path, route.path))
                IN  disp' = [disp EXCEPT ![d].pc = "guards", ![d].i = 1,
                                         ![d].route = route,
                                         ![d].event.pathParameters = JObj(params),
                                         ![d].log = Append(@, entry)]
           ELSE Throw(d, UndefinedPathError, entry)
    /\ UNCHANGED Others

\* A faulty variant of GuardVerdict: a guard that throws counts as a guard
\* that returned false.
GuardVerdictThrowIsFalse(result) ==
    IF ~result.ok \/ ~result.value THEN [pass |-> FALSE, error |-> ForbiddenError]
    ELSE [pass |-> TRUE, error |-> NoError]

\* A faulty variant of GuardVerdict: a guard that returns false is let through.
GuardVerdictLenient(result) ==
    IF ~result.ok THEN [pass |-> FALSE, error |-> result.error]
    ELSE [pass |-> TRUE, error |-> NoError]

\* processGuards on one guard's result: if (!result) throw new ForbiddenError()
GuardVerdict(result) ==
    IF ~result.ok THEN [pass |-> FALSE, error |-> result.error]
    ELSE IF ~result.value THEN [pass |-> FALSE, error |-> ForbiddenError]
    ELSE [pass |-> TRUE, error |-> NoError]

\* processGuards: const result = await guard(event, context)
ProcessGuard(d) ==
    /\ disp[d].pc = "guards"
    /\ disp[d].i <= Len(disp[d].route.guards)
    /\ LET g == disp[d].route.guards[disp[d].i]
           v == GuardVerdict(GuardBody(g, disp[d].event))
           entry == Ran("guard", g, 0)
       IN  IF v.pass
           THEN disp' = [disp EXCEPT ![d].i = @ + 1, ![d].log = Append(@, entry)]
           ELSE Throw(d, v.error, entry)
    /\ UNCHANGED Others

\* return this.invokeHandler(...): the promise is returned without await,
\* so the try block is left and what invokeHandler throws rejects the
\* promise of handleRequest.  The binding runs, then the handler is called.
InvokeHandler(d) ==
    /\ disp[d].pc = "guards"
    /\ disp[d].i > Len(disp[d].route.guards)
    /\ LET handler == disp[d].route.handler
           b == BindArgs(handler.parameters, disp[d].event, 1, << >>)
       IN  IF b.ok
           THEN disp' = [disp EXCEPT ![d].pc = "handler", ![d].args = b.args,
                            ![d].log = Append(@, Ran("handler", handler.name, handler.id))]
           ELSE disp' = [disp EXCEPT ![d].pc = "done", ![d].error = b.error,
                            ![d].out = Rejected(b.error)]
    /\ UNCHANGED Others

\* A faulty variant of Normalize: every success is reported as 200.
NormalizeAlwaysOk(res) ==
    [statusCode |-> 200, body |-> StringifyBody(res.body)]

\* return { statusCode: res.statusCode, body: JSON.stringify(res.body) }
Normalize(res) ==
    [statusCode |-> res.statusCode, body |-> StringifyBody(res.body)]

\* const res = await handler(...args), then the response is normalised
HandlerSettles(d) ==
    /\ disp[d].pc = "handler"
    /\ LET r == HandlerBody(disp[d].route.handler.name, disp[d].args)
       IN  IF r.ok
           THEN disp' = [disp EXCEPT ![d].pc = "done",
                            ![d].out = Fulfilled(Normalize(r.res))]
           ELSE disp' = [disp EXCEPT ![d].pc = "done", ![d].error = r.error,
                            ![d].out = Rejected(r.error)]
    /\ UNCHANGED Others

\* catch (error) { return errorHandler(error as Error, event, context) }
Catch(d) ==
    /\ disp[d].pc = "catch"
    /\ disp' = [disp EXCEPT ![d].pc = "done",
                   ![d].out = Fulfilled(errorHandler(disp[d].error, disp[d].event)),
                   ![d].log = Append(@, Ran("translate", disp[d].error.name, 0))]
    /\ UNCHANGED Others

\* the caller has taken the outcome; the event and the locals are dropped
Return(d) ==
    /\ disp[d].pc = "done"
    /\ disp' = [disp EXCEPT ![d] = Idle]
    /\ UNCHANGED Others

Next ==
    \/ \E l \in Loggers : useLogger(l)
    \/ \E m \in Middlewares : use(m)
    \/ \E c \in Controllers : addRoute(c)
    \/ \E d \in DispIds, event \in Events : HandleRequest(d, event)
    \/ \E d \in DispIds : RunLogger(d)
    \/ \E d \in DispIds : RunMiddleware(d)
    \/ \E d \in DispIds : MatchRoute(d)
    \/ \E d \in DispIds : ProcessGuard(d)
    \/ \E d \in DispIds : InvokeHandler(d)
    \/ \E d \in DispIds : HandlerSettles(d)
    \/ \E d \in DispIds : Catch(d)
    \/ \E d \in DispIds : Return(d)

Spec == Init /\ [][Next]_vars

(***************************************************************************)
(* The catch clause taken alone: errorHandler applied to any failure that  *)
(* can be thrown into it.                                                  *)
(***************************************************************************)
ErrorMessages == {"", "boom"}

\* new X(message) for the classes that take a message, new X() for their
\* default message, new UndefinedPathError(), and the language's errors
Errors ==
    { UndefinedPathError, UnauthorizedError, ForbiddenError, BadRequestError,
      InternalServerError, DatabaseError, NotFoundError, ConflictError,
      ValidationError, SyntaxError, TypeError }
    \cup { [e EXCEPT !.message = m] :
             e \in { UnauthorizedError, ForbiddenError, BadRequestError,
                     InternalServerError, DatabaseError, NotFoundError, ConflictError,
                     ValidationError, NativeError("Error", "") },
             m \in ErrorMessages }

InitErrors ==
    /\ staticRoutes = << >>
    /\ dynamicRoutes = << >>
    /\ middlewares = << >>
    /\ logger = NoLogger
    /\ concurrency = 1
    /\ \E event \in Events, error \in Errors :
          disp = [d \in DispIds |->
                    IF d = 1 THEN [Idle EXCEPT !.pc = "catch", !.event = event,
                                               !.error = error]
                    ELSE Idle]

NextErrors == \E d \in DispIds : Catch(d)

SpecErrors == InitErrors /\ [][NextErrors]_vars

(***************************************************************************)
(* Vocabulary of the properties.                                           *)
(***************************************************************************)
\* the entries of a dispatch's record that belong to one stage
StageEntries(d, stage) ==
    LET Test(entry) == entry.stage = stage
    IN  SelectSeq(disp[d].log, Test)

Reached(d, stage) == \E k \in 1..Len(disp[d].log) : disp[d].log[k].stage = stage

\* the error kind name in a response body, "" when the body carries none
ErrorKind(out) ==
    IF out.state = "fulfilled" /\ "error" \in DOMAIN out.body.json
    THEN out.body.json.error ELSE ""

\* (method, path) matches a registered route as the specification defines a
\* match: a static route with that method and path, or a dynamic route with
\* that method whose pattern matches the whole path
MatchesSomeRoute(httpMethod, path) ==
    \/ \E k \in 1..Len(staticRoutes) :
          staticRoutes[k].method = httpMethod /\ staticRoutes[k].path = path
    \/ \E k \in 1..Len(dynamicRoutes) :
          dynamicRoutes[k].method = httpMethod /\ FullMatch(dynamicRoutes[k], path)

\* C1: a failure of any stage is caught and translated exactly once, so
\* every call of handleRequest completes with a response and never rejects.
C1_EveryFailureTranslated ==
    \A d \in DispIds :
        disp[d].pc = "done" =>
            /\ disp[d].out.state = "fulfilled"
            /\ disp[d].error # NoError => Len(StageEntries(d, "translate")) = 1

\* C2: a request whose logger and middleware completed and whose method and
\* path match no registered route ends with 404 UndefinedPathError, and no
\* guard and no handler ran.
C2_UnmatchedIs404 ==
    \A d \in DispIds :
        ( /\ disp[d].pc = "done"
          /\ Reached(d, "match")
          /\ ~MatchesSomeRoute(disp[d].event.httpMethod, disp[d].event.path) )
        => /\ disp[d].out.state = "fulfilled"
           /\ disp[d].out.statusCode = 404
           /\ ErrorKind(disp[d].out) = "UndefinedPathError"
           /\ ~Reached(d, "guard")
           /\ ~Reached(d, "handler")

\* the segments of a path or template: the texts between the separators
RECURSIVE Segments(_, _, _)
Segments(s, i, current) ==
    IF i > Len(s) THEN << current >>
    ELSE IF s[i] = "/" THEN << current >> \o Segments(s, i + 1, << >>)
    ELSE Segments(s, i + 1, Append(current, s[i]))

\* a placeholder segment: ":" followed by an identifier
IsPlaceholder(seg) ==
    Len(seg) >= 2 /\ seg[1] = ":" /\ \A k \in 2..Len(seg) : seg[k] \in Alnum

\* the path has the template's segments, each placeholder replaced by a
\* non-empty text without a separator
StructurallyMatches(template, path) ==
    LET t == Segments(template, 1, << >>)
        p == Segments(path, 1, << >>)
    IN  /\ Len(t) = Len(p)
        /\ \A k \in 1..Len(t) :
              IF IsPlaceholder(t[k]) THEN Len(p[k]) > 0 ELSE t[k] = p[k]

\* placeholder name |-> the text substituted for it
SubstitutedParams(template, path) ==
    LET t == Segments(template, 1, << >>)
        p == Segments(path, 1, << >>)
        holders == { k \in 1..Len(t) : IsPlaceholder(t[k]) }
    IN  [name \in { SliceFrom(t[k], 2) : k \in holders } |->
            JStr(p[CHOOSE k \in holders : SliceFrom(t[k], 2) = name])]

\* the full template the route of a handler was registered with: the
\* controller path and the path of the method of that name
TemplateOf(name) ==
    LET c == CHOOSE c \in Controllers :
                 \E k \in 1..Len(c.methods) : c.methods[k].name = name
        k == CHOOSE k \in 1..Len(c.methods) : c.methods[k].name = name
    IN  c.path \o c.methods[k].path

\* how the dispatch resolved its route: "static", "dynamic", "none", or ""
\* before the lookup
Resolution(d) ==
    IF Reached(d, "match") THEN StageEntries(d, "match")[1].who ELSE ""

\* C3: a dispatch that resolves to a dynamic route compiled from a template
\* the path structurally matches has path parameters that map every
\* placeholder name to the text substituted for it.
C3_PathParamsAreSubstitutions ==
    \A d \in DispIds :
        LET template == TemplateOf(disp[d].route.handler.name)
        IN  ( /\ Resolution(d) = "dynamic"
              /\ StructurallyMatches(template, disp[d].event.path) )
            => disp[d].event.pathParameters
                  = JObj(SubstitutedParams(template, disp[d].event.path))

\* the static routes registered under a method and path
StaticFor(httpMethod, path) ==
    { k \in 1..Len(staticRoutes) :
        staticRoutes[k].method = httpMethod /\ staticRoutes[k].path = path }

\* the handlers a dispatch has invoked, in order
Invoked(d) ==
    LET entries == StageEntries(d, "handler")
    IN  [k \in 1..Len(entries) |-> entries[k].hid]

\* the guards a dispatch has evaluated, in order
Evaluated(d) ==
    LET entries == StageEntries(d, "guard")
    IN  [k \in 1..Len(entries) |-> entries[k].who]

BothMatch(d) ==
    /\ Resolution(d) # ""
    /\ StaticFor(disp[d].event.httpMethod, disp[d].event.path) # {}
    /\ \E k \in 1..Len(dynamicRoutes) : FullMatch(dynamicRoutes[k], disp[d].event.path)

\* C4: when a static route has the request's method and path and a dynamic
\* pattern matches the path too, the dispatch uses the static route: its
\* guards, its handler, and never a dynamic route's handler.
C4_StaticBeforeDynamic ==
    \A d \in DispIds :
        BothMatch(d) =>
            /\ \E k \in StaticFor(disp[d].event.httpMethod, disp[d].event.path) :
                  disp[d].route = staticRoutes[k]
            /\ \A n \in 1..Len(Invoked(d)) :
                  /\ Invoked(d)[n] = disp[d].route.handler.id
                  /\ \A k \in 1..Len(dynamicRoutes) :
                        Invoked(d)[n] # dynamicRoutes[k].handler.id
            /\ \A n \in 1..Len(Evaluated(d)) :
                  Evaluated(d)[n] = disp[d].route.guards[n]

\* a dispatch that ran the static route's handler while a dynamic pattern
\* registered before it matched the path as well
C4_Witness ==
    \E d \in DispIds :
        /\ BothMatch(d)
        /\ Len(Invoked(d)) = 1
        /\ Len(Evaluated(d)) >= 1
        /\ \E k \in 1..Len(dynamicRoutes) :
              /\ FullMatch(dynamicRoutes[k], disp[d].event.path)
              /\ dynamicRoutes[k].handler.id < disp[d].route.handler.id

\* what a guard returned to processGuards
Returned(g, d, value) ==
    LET r == GuardBody(g, disp[d].event) IN r.ok /\ r.value = value

\* C5: the guards of the matched route run in registration order; after a
\* guard that returns false no other guard runs, the handler is not invoked
\* and the outcome is one ForbiddenError (403); the handler runs only after
\* every guard of the route returned true.
C5_GuardsShortCircuit ==
    \A d \in DispIds :
        LET guards == disp[d].route.guards
            ran == Evaluated(d)
        IN  /\ Len(ran) <= Len(guards)
            /\ \A n \in 1..Len(ran) : ran[n] = guards[n]
            /\ \A n \in 1..(Len(ran) - 1) : Returned(ran[n], d, TRUE)
            /\ (Len(ran) > 0 /\ Returned(ran[Len(ran)], d, FALSE)) =>
                  /\ Invoked(d) = << >>
                  /\ disp[d].pc \in {"catch", "done"}
                  /\ disp[d].error = ForbiddenError
                  /\ disp[d].pc = "done" =>
                        /\ disp[d].out.state = "fulfilled"
                        /\ disp[d].out.statusCode = 403
                        /\ ErrorKind(disp[d].out) = "ForbiddenError"
                        /\ Len(StageEntries(d, "translate")) = 1
            /\ Invoked(d) # << >> =>
                  /\ Len(ran) = Len(guards)
                  /\ \A n \in 1..Len(ran) : Returned(ran[n], d, TRUE)

\* a finished dispatch whose second guard returned false, with a third
\* guard registered after it
C5_Witness ==
    \E d \in DispIds :
        /\ disp[d].pc = "done"
        /\ Len(disp[d].route.guards) = 3
        /\ Len(Evaluated(d)) = 2
        /\ Returned(Evaluated(d)[2], d, FALSE)
        /\ disp[d].out.statusCode = 403

\* C6: the logger, when set, runs before every middleware; the middlewares
\* run in registration order; and all of them have run before the route is
\* looked up and before any guard or handler runs, whatever the request.
C6_LoggerThenMiddlewareThenRoute ==
    \A d \in DispIds :
        LET log == disp[d].log
            first == IF logger = NoLogger THEN 0 ELSE 1
        IN  \A k \in 1..Len(log) :
                /\ log[k].stage = "logger" => k = 1 /\ log[k].who = logger
                /\ log[k].stage = "middleware" =>
                      /\ k - first \in 1..Len(middlewares)
                      /\ log[k].who = middlewares[k - first]
                      /\ first = 1 => log[1].stage = "logger"
                /\ log[k].stage \in {"match", "guard", "handler"} =>
                      /\ k > first + Len(middlewares)
                      /\ \A j \in 1..(first + Len(middlewares)) :
                            log[j].stage \in {"logger", "middleware"}

\* a dispatch that ran the logger, two different middlewares and a guard
C6_Witness ==
    \E d \in DispIds :
        /\ logger # NoLogger
        /\ Len(middlewares) = 2 /\ middlewares[1] # middlewares[2]
        /\ Len(StageEntries(d, "logger")) = 1
        /\ Len(StageEntries(d, "middleware")) = 2
        /\ Len(Evaluated(d)) >= 1

\* the first-registered static route with the request's method and path
FirstStatic(d) ==
    LET hits == StaticFor(disp[d].event.httpMethod, disp[d].event.path)
    IN  staticRoutes[CHOOSE k \in hits : \A j \in hits : k <= j]

\* the logger, every middleware and every guard of the route let the
\* request of d through
PipelinePasses(d, route) ==
    /\ logger # NoLogger => MiddlewareBody(logger, disp[d].event).ok
    /\ \A k \in 1..Len(middlewares) : MiddlewareBody(middlewares[k], disp[d].event).ok
    /\ \A k \in 1..Len(route.guards) : Returned(route.guards[k], d, TRUE)

BodyParseFails(d) ==
    /\ Resolution(d) \in {"static", "dynamic"}
    /\ PipelinePasses(d, disp[d].route)
    /\ \E k \in 1..Len(disp[d].route.handler.parameters) :
          disp[d].route.handler.parameters[k].type = "body"
    /\ Truthy(disp[d].event.body)
    /\ ~JSONParse(disp[d].event.body.s).ok

\* C8: when the body cannot be parsed during binding, the dispatch ends
\* with a response of status 400 and the handler is not invoked.
C8_ParseFailureIs400 ==
    \A d \in DispIds :
        (disp[d].pc = "done" /\ BodyParseFails(d)) =>
            /\ disp[d].out.state = "fulfilled"
            /\ disp[d].out.statusCode = 400
            /\ Invoked(d) = << >>

\* the value the specification gives a Body parameter: absent without a
\* body (null or the empty text), the field of the parsed body under a key
\* (absent if it has no such field), the whole parsed body without a key
BodyArgument(event, key) ==
    IF event.body = JNull \/ event.body = JStr(<< >>) THEN Undefined
    ELSE LET parsed == JSONParse(event.body.s).value
         IN  IF key = << >> THEN parsed
             ELSE IF parsed.t = "object" /\ key \in DOMAIN parsed.o THEN parsed.o[key]
             ELSE Undefined

StatusOfKind(name) ==
    CASE name = "UndefinedPathError" -> 404
      [] name = "ForbiddenError" -> 403
      [] name = "UnauthorizedError" -> 401
      [] name \in {"BadRequestError", "ValidationError"} -> 400
      [] name = "NotFoundError" -> 404
      [] name = "ConflictError" -> 409
      [] name \in {"InternalServerError", "DatabaseError"} -> 500
      [] OTHER -> 500

\* C10: the translator answers every failure with the status code of its
\* kind (500 for a kind it does not know) and a body that carries a message
\* and the kind's name.
C10_TranslationByKind ==
    \A d \in DispIds :
        (disp[d].pc = "done" /\ Reached(d, "translate")) =>
            /\ disp[d].out.state = "fulfilled"
            /\ disp[d].out.statusCode = StatusOfKind(disp[d].error.name)
            /\ DOMAIN disp[d].out.body.json = {"message", "error"}
            /\ disp[d].out.body.json.error = disp[d].error.name
            /\ disp[d].out.body.json.message # ""
            /\ disp[d].error.message # "" =>
                  disp[d].out.body.json.message = disp[d].error.message

\* a ConflictError with a message of its own was translated to 409
C10_Witness ==
    \E d \in DispIds :
        /\ disp[d].pc = "done"
        /\ disp[d].error.name = "ConflictError"
        /\ disp[d].error.message = "boom"
        /\ disp[d].out.statusCode = 409
        /\ disp[d].out.body.json.message = "boom"

(***************************************************************************)
(* Header binding: controllers whose handlers take a header, requests that *)
(* carry it.  The gateway hands the header names over as the client wrote  *)
(* them; the router stores and rewrites no header.                         *)
(***************************************************************************)
HeaderUpper == << "X", "I", "d" >>
HeaderMixed == << "X", "i", "d" >>
HeaderLower == << "x", "i", "d" >>
HeaderValue == << "7" >>
HeaderNames == {HeaderUpper, HeaderMixed, HeaderLower}

PathHeader == << "/", "h" >>

HeaderMethods ==
    { Method("byUpper", "GET", PathHeader, << >>,
             << Descriptor(0, "headers", HeaderUpper) >>),
      Method("byMixed", "GET", PathHeader, << >>,
             << Descriptor(1, "headers", HeaderMixed) >>),
      Method("byLower", "GET", PathHeader, << >>,
             << Descriptor(0, "headers", HeaderLower) >>),
      Method("allHeaders", "GET", PathHeader, << >>,
             << Descriptor(0, "headers", << >>) >>) }

HeaderControllers == { Controller(PathU, << m >>) : m \in HeaderMethods }

\* an event with its headers
WithHeaders(event, headers) == [event EXCEPT !.headers = headers]

HeaderEvents ==
    { WithHeaders(Event("GET", PathU \o PathHeader, JNull),
                  JObj([n \in {name} |-> JStr(HeaderValue)])) : name \in HeaderNames }
    \cup { Event("GET", PathU \o PathHeader, JNull),
           Event("POST", PathU \o PathHeader, JNull) }

NextHeaders ==
    \/ \E c \in HeaderControllers : addRoute(c)
    \/ \E d \in DispIds, event \in HeaderEvents : HandleRequest(d, event)
    \/ \E d \in DispIds : RunLogger(d)
    \/ \E d \in DispIds : MatchRoute(d)
    \/ \E d \in DispIds : InvokeHandler(d)
    \/ \E d \in DispIds : HandlerSettles(d)
    \/ \E d \in DispIds : Catch(d)
    \/ \E d \in DispIds : Return(d)

SpecHeaders == Init /\ [][NextHeaders]_vars

\* two header names are equal up to letter case
SameHeaderName(a, b) == ToLowerCase(a) = ToLowerCase(b)

\* C11: a handler with a Header descriptor of key k gets the value of the
\* request's header whose name equals k up to letter case, whatever the
\* case of either.
C11_HeaderLookupIgnoresCase ==
    \A d \in DispIds :
        Invoked(d) # << >> =>
            LET ps == disp[d].route.handler.parameters
                headers == disp[d].event.headers
            IN  \A k \in 1..Len(ps) :
                    (ps[k].type = "headers" /\ ps[k].param # << >> /\ headers.t = "object")
                    => \A name \in DOMAIN headers.o :
                          SameHeaderName(name, ps[k].param) =>
                              disp[d].args[ps[k].index + 1] = headers.o[name]

(***************************************************************************)
(* The response of a successful dispatch.                                  *)
(***************************************************************************)
\* what the handler of dispatch d returned for the arguments it was given
HandlerResult(d) == HandlerBody(disp[d].route.handler.name, disp[d].args)

\* the JSON document of a handler's body: message, and data unless it is
\* undefined (an undefined element of an array is written as null)
DocumentOf(body) ==
    IF body.data = Undefined THEN [message |-> body.message]
    ELSE [message |-> body.message,
          data |-> IF body.data.t = "array"
                   THEN JArr([k \in 1..Len(body.data.a) |->
                                 IF body.data.a[k] = Undefined THEN JNull
                                 ELSE body.data.a[k]])
                   ELSE body.data]

\* the dispatch is over and its handler returned a Response
Succeeded(d) ==
    /\ disp[d].pc = "done"
    /\ Invoked(d) # << >>
    /\ HandlerResult(d).ok

\* C12: when the handler returns a Response, handleRequest fulfils with the
\* handler's statusCode unchanged and the serialization of the handler's
\* body, and with nothing else (no error, no translation).
C12_SuccessPassesThrough ==
    \A d \in DispIds :
        Succeeded(d) =>
            /\ disp[d].out.state = "fulfilled"
            /\ disp[d].out.statusCode = HandlerResult(d).res.statusCode
            /\ disp[d].out.body = [json |-> DocumentOf(HandlerResult(d).res.body)]
            /\ disp[d].out.error = NoError
            /\ ~Reached(d, "translate")

\* a handler that answered 201 with two bound arguments has settled
C12_Witness ==
    \E d \in DispIds :
        /\ Succeeded(d)
        /\ disp[d].out.statusCode = 201
        /\ Len(disp[d].args) > 1
        /\ disp[d].out.body.json.message = "create"

(***************************************************************************)
(* The dynamic lookup.                                                     *)
(***************************************************************************)
\* the dynamic routes registered under the method whose pattern matches
\* the whole path
DynamicFor(httpMethod, path) ==
    { k \in 1..Len(dynamicRoutes) :
        dynamicRoutes[k].method = httpMethod /\ FullMatch(dynamicRoutes[k], path) }

\* C13: a dispatch that resolves dynamically uses the first dynamic route,
\* in registration order, whose pattern matches the whole path and whose
\* method is the request's; a route of another method is skipped.
C13_DynamicLookupByMethod ==
    \A d \in DispIds :
        Resolution(d) = "dynamic" =>
            LET hits == DynamicFor(disp[d].event.httpMethod, disp[d].event.path)
            IN  /\ disp[d].route.method = disp[d].event.httpMethod
                /\ hits # {}
                /\ disp[d].route = dynamicRoutes[CHOOSE k \in hits : \A j \in hits : k <= j]

(***************************************************************************)
(* A guard that throws.                                                    *)
(***************************************************************************)
\* the k-th guard dispatch d evaluated threw
Raised(d, k) == ~GuardBody(Evaluated(d)[k], disp[d].event).ok

\* C14: when a guard throws, no later guard is evaluated, the handler is
\* not invoked, and the error translator gets the guard's own exception:
\* the response has that exception's status and kind, not 403 Forbidden.
C14_GuardExceptionPropagates ==
    \A d \in DispIds :
        \A k \in 1..Len(Evaluated(d)) :
            Raised(d, k) =>
                LET thrown == GuardBody(Evaluated(d)[k], disp[d].event).error
                IN  /\ k = Len(Evaluated(d))
                    /\ Invoked(d) = << >>
                    /\ disp[d].pc \in {"catch", "done"}
                    /\ disp[d].error = thrown
                    /\ disp[d].pc = "done" =>
                          /\ disp[d].out.state = "fulfilled"
                          /\ disp[d].out.statusCode = thrown.statusCode
                          /\ disp[d].out.statusCode # ForbiddenError.statusCode
                          /\ ErrorKind(disp[d].out) = thrown.name
                          /\ Len(StageEntries(d, "translate")) = 1
                          /\ StageEntries(d, "translate")[1].who = thrown.name

\* a dispatch whose second guard threw, with a guard that would deny
\* behind it, has been answered
C14_Witness ==
    \E d \in DispIds :
        /\ disp[d].pc = "done"
        /\ Len(Evaluated(d)) = 2
        /\ Raised(d, 2)
        /\ Len(disp[d].route.guards) = 3
        /\ disp[d].out.statusCode = 401

(***************************************************************************)
(* A logger or a middleware that throws.                                   *)
(***************************************************************************)
\* the k-th step dispatch d ran was the logger or a middleware, and it threw
StageFailed(d, k) ==
    /\ disp[d].log[k].stage \in {"logger", "middleware"}
    /\ ~MiddlewareBody(disp[d].log[k].who, disp[d].event).ok

\* C15: after the logger or a middleware throws, the dispatch runs no later
\* middleware, no route matching, no guard, no binding and no handler, does
\* not run the failed stage again, and answers with the translation of
\* what was thrown.
C15_StageFailureAborts ==
    \A d \in DispIds :
        \A k \in 1..Len(disp[d].log) :
            StageFailed(d, k) =>
                LET thrown == MiddlewareBody(disp[d].log[k].who, disp[d].event).error
                IN  /\ \A j \in (k + 1)..Len(disp[d].log) : disp[d].log[j].stage = "translate"
                    /\ disp[d].route = NoRoute
                    /\ disp[d].args = << >>
                    /\ disp[d].event.pathParameters = JNull
                    /\ disp[d].pc \in {"catch", "done"}
                    /\ disp[d].error = thrown
                    /\ disp[d].pc = "done" =>
                          /\ Len(disp[d].log) = k + 1
                          /\ disp[d].out.state = "fulfilled"
                          /\ disp[d].out.statusCode = thrown.statusCode
                          /\ disp[d].out.body.json =
                                 [message |-> thrown.message, error |-> thrown.name]

\* a dispatch whose logger and first middleware completed and whose second
\* middleware threw has been answered, with a route registered that the
\* request would have matched
C15_Witness ==
    \E d \in DispIds :
        /\ disp[d].pc = "done"
        /\ Len(disp[d].log) = 4
        /\ disp[d].log[1].stage = "logger"
        /\ disp[d].log[2].stage = "middleware"
        /\ StageFailed(d, 3)
        /\ disp[d].out.statusCode = 400
        /\ MatchesSomeRoute(disp[d].event.httpMethod, disp[d].event.path)

(***************************************************************************)
(* Path templates: controllers whose templates have a literal with a dot,  *)
(* a placeholder in the controller's own path, the same placeholder twice, *)
(* and two placeholders; requests for the paths around them.               *)
(***************************************************************************)
PathT == << "/", "t" >>
PathTId == << "/", "t", "/", ":", "i" >>
PathDotted == << "/", "x", ".", "y", "/", ":", "i" >>
PathTwice == << "/", ":", "i", "/", ":", "i" >>
PathPair == << "/", ":", "i", "/", ":", "k" >>

PatternControllers ==
    { Controller(PathT, << Method("one", "GET", PathId, << >>,
                                  << Descriptor(0, "params", << "i" >>) >>) >>),
      Controller(PathT, << Method("dotted", "GET", PathDotted, << >>, << >>) >>),
      Controller(PathTId, << Method("nested", "GET", PathMe, << >>, << >>) >>),
      Controller(PathT, << Method("twice", "GET", PathTwice, << >>,
                                  << Descriptor(0, "params", << "i" >>) >>) >>),
      Controller(PathT, << Method("pair", "GET", PathPair, << >>,
                                  << Descriptor(0, "params", << >>) >>) >>) }

PatternPaths ==
    { << "/", "t", "/", "7" >>, << "/", "t", "/" >>, << "/", "t", "/", "7", "/" >>,
      << "/", "t", "/", "7", "/", "8" >>, << "/", "t", "/", "7", "/", "m", "e" >>,
      << "/", "t", "/", ":", "i", "/", "m", "e" >>,
      << "/", "t", "/", "x", ".", "y", "/", "7" >>,
      << "/", "t", "/", "x", "z", "y", "/", "7" >>,
      << "/", "t", "/", "x", "/", "y", "/", "7" >> }

PatternEvents == { Event("GET", p, JNull) : p \in PatternPaths }

NextPatterns ==
    \/ \E c \in PatternControllers : addRoute(c)
    \/ \E d \in DispIds, event \in PatternEvents : HandleRequest(d, event)
    \/ \E d \in DispIds : RunLogger(d)
    \/ \E d \in DispIds : MatchRoute(d)
    \/ \E d \in DispIds : InvokeHandler(d)
    \/ \E d \in DispIds : HandlerSettles(d)
    \/ \E d \in DispIds : Catch(d)
    \/ \E d \in DispIds : Return(d)

SpecPatterns == Init /\ [][NextPatterns]_vars

\* the full template (controller path and method path) the handler of that
\* name was registered with
PatternTemplateOf(name) ==
    LET c == CHOOSE c \in PatternControllers : c.methods[1].name = name
    IN  c.path \o c.methods[1].path

\* the placeholder segments of a template, by position
Placeholders(template) ==
    LET t == Segments(template, 1, << >>)
    IN  { k \in 1..Len(t) : IsPlaceholder(t[k]) }

\* C16: the pattern compiled from a template matches a path, as the lookup
\* tests it, exactly when the path has the template's number of segments,
\* equals it in every literal segment and has a non-empty text without a
\* separator for every placeholder.
C16_PatternMatchesStructure ==
    \A d \in DispIds :
        Resolution(d) # "" =>
            \A k \in 1..Len(dynamicRoutes) :
                FullMatch(dynamicRoutes[k], disp[d].event.path)
                <=> StructurallyMatches(PatternTemplateOf(dynamicRoutes[k].handler.name),
                                        disp[d].event.path)

\* C17: a route is in the static collection exactly when its full template
\* has no placeholder, and in the dynamic collection, compiled from the
\* full template, when it has one.
C17_StaticIffNoPlaceholder ==
    /\ \A k \in 1..Len(staticRoutes) :
          /\ Placeholders(PatternTemplateOf(staticRoutes[k].handler.name)) = {}
          /\ staticRoutes[k].path = PatternTemplateOf(staticRoutes[k].handler.name)
    /\ \A k \in 1..Len(dynamicRoutes) :
          /\ Placeholders(PatternTemplateOf(dynamicRoutes[k].handler.name)) # {}
          /\ dynamicRoutes[k].path =
                 convertToRegExp(PatternTemplateOf(dynamicRoutes[k].handler.name))

\* the template names one placeholder more than once
HasDuplicateNames(template) ==
    LET t == Segments(template, 1, << >>)
    IN  \E j, k \in Placeholders(template) : j # k /\ t[j] = t[k]

\* C18: a template that names a placeholder twice is refused at
\* registration: no route of the route table comes from such a template
\* and no dispatch resolves to one.
C18_DuplicateNamesRefused ==
    /\ \A k \in 1..Len(staticRoutes) :
          ~HasDuplicateNames(PatternTemplateOf(staticRoutes[k].handler.name))
    /\ \A k \in 1..Len(dynamicRoutes) :
          ~HasDuplicateNames(PatternTemplateOf(dynamicRoutes[k].handler.name))
    /\ \A d \in DispIds :
          disp[d].route # NoRoute =>
              ~HasDuplicateNames(PatternTemplateOf(disp[d].route.handler.name))

(***************************************************************************)
(* What a dispatch writes.                                                 *)
(***************************************************************************)
\* the event without its path-parameter slot
Request(event) == [event EXCEPT !.pathParameters = JNull]

\* C19: no step of a dispatch changes the static routes, the dynamic routes
\* and their patterns, the middleware list or the logger, whatever the
\* outcome; of the request it was given a dispatch writes nothing but the
\* path parameters, and it writes nothing of another dispatch.
C19_DispatchWritesOnlyPathParameters ==
    [][ disp' # disp =>
          /\ UNCHANGED << staticRoutes, dynamicRoutes, middlewares, logger >>
          /\ \A d \in DispIds :
                /\ (disp[d].pc # "idle" /\ disp'[d].pc # "idle")
                       => Request(disp'[d].event) = Request(disp[d].event)
                /\ disp'[d] # disp[d] => \A e \in DispIds \ {d} : disp'[e] = disp[e]
      ]_vars

\* a dispatch that resolved to the first of two dynamic routes and wrote
\* its path parameters has been answered, with a logger and a middleware
\* registered
C19_Witness ==
    \E d \in DispIds :
        /\ disp[d].pc = "done"
        /\ Resolution(d) = "dynamic"
        /\ Len(dynamicRoutes) = 2
        /\ disp[d].route = dynamicRoutes[1]
        /\ dynamicRoutes[2] # dynamicRoutes[1]
        /\ disp[d].event.pathParameters # JNull
        /\ logger # NoLogger
        /\ middlewares # << >>

(***************************************************************************)
(* Serving: the router is set up, then the host runs the calls of          *)
(* handleRequest concurrently, switching at every await.                   *)
(***************************************************************************)
MethodNamed(name) == CHOOSE m \in Methods : m.name = name

\* router.addRoute(c) for each controller of the list, from the k-th on
RECURSIVE AddControllers(_, _, _)
AddControllers(tables, controllers, k) ==
    IF k > Len(controllers) THEN tables
    ELSE AddControllers(AddMethods(tables, controllers[k], 1), controllers, k + 1)

Setup(l, ms, controllers) == [logger |-> l, middlewares |-> ms, controllers |-> controllers]

ServingSetups ==
    { Setup(NoLogger, << >>,
            << Controller(PathU, << MethodNamed("getItem"), MethodNamed("getMe") >>),
               Controller(PathU, << MethodNamed("create") >>) >>),
      Setup("audit", << "trace" >>,
            << Controller(PathU, << MethodNamed("admin") >>),
               Controller(PathU, << MethodNamed("postItem") >>) >>),
      Setup(NoLogger, << "audit", "reject" >>,
            << Controller(PathU, << MethodNamed("getItem") >>) >>) }

ServingEvents ==
    { Event("GET", << "/", "u", "/", "4", "2" >>, JNull),
      Event("GET", << "/", "u", "/", "m", "e" >>, JNull),
      Event("GET", << "/", "u", "/", "s" >>, JNull),
      Event("GET", << "/", "x" >>, JNull),
      Event("POST", << "/", "u", "/", "n" >>, JStr(BodyAda)),
      Event("POST", << "/", "u", "/", "n" >>, JStr(BodyEmptyObject)) }

InitServing ==
    \E setup \in ServingSetups :
        LET tables == AddControllers([static |-> << >>, dynamic |-> << >>],
                                     setup.controllers, 1)
        IN  /\ staticRoutes = tables.static
            /\ dynamicRoutes = tables.dynamic
            /\ middlewares = setup.middlewares
            /\ logger = setup.logger
            /\ concurrency = Cardinality(DispIds)
            /\ disp = [d \in DispIds |-> Idle]

NextServing ==
    \/ \E d \in DispIds, event \in ServingEvents : HandleRequest(d, event)
    \/ \E d \in DispIds : RunLogger(d)
    \/ \E d \in DispIds : RunMiddleware(d)
    \/ \E d \in DispIds : MatchRoute(d)
    \/ \E d \in DispIds : ProcessGuard(d)
    \/ \E d \in DispIds : InvokeHandler(d)
    \/ \E d \in DispIds : HandlerSettles(d)
    \/ \E d \in DispIds : Catch(d)
    \/ \E d \in DispIds : Return(d)

SpecServing == InitServing /\ [][NextServing]_vars

\* the least element of a non-empty set of indices
Least(indices) == CHOOSE k \in indices : \A j \in indices : k <= j

\* what a call of handleRequest with that event comes to when it is the
\* only one running on the router as it is set up: the route it selects,
\* the event it leaves, the arguments it binds and its outcome
Alone(event) ==
    LET Translated(error, route, ev) ==
            [route |-> route, event |-> ev, args |-> << >>,
             out |-> Fulfilled(errorHandler(error, ev))]
        stages == IF logger = NoLogger THEN middlewares ELSE << logger >> \o middlewares
        failing == { k \in 1..Len(stages) : ~MiddlewareBody(stages[k], event).ok }
        hit == Resolve(staticRoutes, dynamicRoutes, event.httpMethod, event.path)
    IN  IF failing # {}
        THEN Translated(MiddlewareBody(stages[Least(failing)], event).error, NoRoute, event)
        ELSE IF hit.kind = "none" THEN Translated(UndefinedPathError, NoRoute, event)
        ELSE LET route == IF hit.kind = "static" THEN staticRoutes[hit.index]
                          ELSE dynamicRoutes[hit.index]
                 matched ==
                     IF hit.kind = "static" THEN event
                     ELSE [event EXCEPT !.pathParameters =
                              JObj(extractParams(route.path,
                                                 StringMatch(event.path, route.path)))]
                 refusing == { k \in 1..Len(route.guards) :
                                 ~GuardVerdict(GuardBody(route.guards[k], matched)).pass }
                 b == BindArgs(route.handler.parameters, matched, 1, << >>)
                 r == HandlerBody(route.handler.name, b.args)
             IN  IF refusing # {}
                 THEN Translated(GuardVerdict(GuardBody(route.guards[Least(refusing)],
                                                        matched)).error, route, matched)
                 ELSE IF ~b.ok
                 THEN [route |-> route, event |-> matched, args |-> << >>,
                       out |-> Rejected(b.error)]
                 ELSE [route |-> route, event |-> matched, args |-> b.args,
                       out |-> IF r.ok THEN Fulfilled(Normalize(r.res))
                               ELSE Rejected(r.error)]

\* C20: with the router set up before serving, every interleaving of
\* concurrent dispatches gives each of them the route, the path parameters,
\* the handler arguments and the outcome it has when run alone; none sees
\* or changes the request of another.
C20_ConcurrentAsAlone ==
    \A d \in DispIds :
        disp[d].pc # "idle" =>
            LET alone == Alone(Request(disp[d].event))
            IN  /\ Resolution(d) \in {"", "none"} =>
                      /\ disp[d].route = NoRoute
                      /\ disp[d].event = Request(disp[d].event)
                /\ Resolution(d) \in {"static", "dynamic"} =>
                      /\ disp[d].route = alone.route
                      /\ disp[d].event = alone.event
                /\ disp[d].pc = "handler" => disp[d].args = alone.args
                /\ disp[d].pc = "done" =>
                      /\ disp[d].route = alone.route
                      /\ disp[d].event = alone.event
                      /\ disp[d].args = alone.args
                      /\ disp[d].out = alone.out

\* two dispatches in the middle of their runs at once: one has bound the
\* arguments of a dynamic route and awaits its handler, the other has
\* matched a static route and is between two guards
C20_Witness ==
    \E d, e \in DispIds :
        /\ d # e
        /\ disp[d].pc = "handler"
        /\ Resolution(d) = "dynamic"
        /\ disp[d].event.pathParameters # JNull
        /\ disp[e].pc = "guards"
        /\ Resolution(e) = "static"
        /\ disp[e].i = Len(disp[e].route.guards)
        /\ disp[e].event.path # disp[d].event.path

====
